---------------------------- MODULE Spec2Model ----------------------------
(***************************************************************************)
(* Gaussian elimination with partial pivoting and condition estimate       *)
(* (second_lab/Decomp.cpp) and the triangular solver (second_lab/Solve.cpp)*)
(* together with the two owning classes Decomp and Solve.                  *)
(*                                                                         *)
(* Arithmetic.  A double is modelled by an exact rational <<num, den>>     *)
(* in lowest terms with den > 0, extended by the IEEE-754 special values   *)
(* <<1, 0>> (+inf), <<-1, 0>> (-inf) and <<0, 0>> (NaN).  Rounding is not  *)
(* modelled: every finite operation is exact.  Division by zero, 0 * inf,  *)
(* inf - inf and comparisons with NaN follow IEEE-754.  A zero divisor is  *)
(* always +0.0 in this code (divisors are entries of the updated upper     *)
(* part of the buffer, which are sums and never -0.0), so x / 0 has the    *)
(* sign of x.                                                              *)
(*                                                                         *)
(* Memory.  Buffers are functions on 0 .. len-1, indexed as in the source  *)
(* (row-major, a[i * ndim + j]).  Heap blocks are numbered; heap[p] counts *)
(* how often block p has been released (0 = live); pointer 0 is nullptr.   *)
(***************************************************************************)
EXTENDS Integers, Sequences, FiniteSets, TLC

----------------------------------------------------------------------------
(* Bounds of the model *)

\* largest matrix order the harness supplies
MaxN == 3
\* matrix and right-hand-side entries are drawn from -MaxAbs .. MaxAbs
MaxAbs == 1
\* calls made on one instance in the lifecycle harness
MaxCalls == 3

----------------------------------------------------------------------------
(* double arithmetic *)

AbsInt(i) == IF i < 0 THEN -i ELSE i

SignInt(i) == IF i < 0 THEN -1 ELSE IF i > 0 THEN 1 ELSE 0

RECURSIVE Gcd(_, _)
Gcd(x, y) == IF y = 0 THEN x ELSE Gcd(y, x % y)

\* p / q for q # 0, in lowest terms with a positive denominator
Rat(p, q) ==
    LET g == Gcd(AbsInt(p), AbsInt(q))
        s == IF q < 0 THEN -1 ELSE 1
    IN  <<(s * p) \div g, (s * q) \div g>>

D(i) == <<i, 1>>
Zero == <<0, 1>>
One == <<1, 1>>
NaN == <<0, 0>>
PInf == <<1, 0>>
NInf == <<-1, 0>>

IsNaN(x) == x = NaN
IsFinite(x) == x[2] # 0
IsZero(x) == x = Zero

\* x + y
fadd(x, y) ==
    IF IsNaN(x) \/ IsNaN(y) THEN NaN
    ELSE IF ~IsFinite(x) /\ ~IsFinite(y) THEN (IF x = y THEN x ELSE NaN)
    ELSE IF ~IsFinite(x) THEN x
    ELSE IF ~IsFinite(y) THEN y
    ELSE Rat(x[1] * y[2] + y[1] * x[2], x[2] * y[2])

\* -x
fneg(x) == <<-x[1], x[2]>>

\* x - y
fsub(x, y) == fadd(x, fneg(y))

\* x * y
fmul(x, y) ==
    IF IsNaN(x) \/ IsNaN(y) THEN NaN
    ELSE IF ~IsFinite(x) \/ ~IsFinite(y)
         THEN (IF IsZero(x) \/ IsZero(y) THEN NaN
               ELSE <<SignInt(x[1]) * SignInt(y[1]), 0>>)
    ELSE Rat(x[1] * y[1], x[2] * y[2])

\* x / y (a zero y is +0.0)
fdiv(x, y) ==
    IF IsNaN(x) \/ IsNaN(y) THEN NaN
    ELSE IF ~IsFinite(x) /\ ~IsFinite(y) THEN NaN
    ELSE IF ~IsFinite(x) THEN <<x[1] * (IF y[1] < 0 THEN -1 ELSE 1), 0>>
    ELSE IF ~IsFinite(y) THEN Zero
    ELSE IF IsZero(y) THEN <<SignInt(x[1]), 0>>
    ELSE Rat(x[1] * y[2], x[2] * y[1])

\* fabs(x)
fabs(x) == <<AbsInt(x[1]), x[2]>>

\* x < y
flt(x, y) ==
    /\ ~IsNaN(x)
    /\ ~IsNaN(y)
    /\ IF IsFinite(x) /\ IsFinite(y)
       THEN x[1] * y[2] < y[1] * x[2]
       ELSE x # y /\ (x = NInf \/ y = PInf)

\* x > y
fgt(x, y) == flt(y, x)

RECURSIVE FloorDivPow(_, _, _)
\* floor(x / base^e) for x >= 0, by repeated floor division
FloorDivPow(x, base, e) ==
    IF e = 0 THEN x ELSE FloorDivPow(x \div base, base, e - 1)

\* double EPSILON = 2.2e-16, kept as the decimal literal 22 * 10^-17
EPSILON == [mant |-> 22, exp10 |-> 17]

\* x < anorm * EPSILON, for a finite anorm >= 0:
\* p/q < (an/ad) * mant / 10^e  <=>  (p * ad) * 10^e < mant * an * q
LtTol(x, anorm) ==
    /\ ~IsNaN(x)
    /\ x # PInf
    /\ \/ x = NInf
       \/ x[1] < 0
       \/ x[1] = 0 /\ anorm[1] > 0
       \/ /\ x[1] > 0
          /\ anorm[1] > 0
          /\ x[1] * anorm[2] <=
               FloorDivPow(EPSILON.mant * anorm[1] * x[2] - 1, 10, EPSILON.exp10)

\* x > anorm * EPSILON, for a finite anorm >= 0
GtTol(x, anorm) ==
    /\ ~IsNaN(x)
    /\ x # NInf
    /\ \/ x = PInf
       \/ /\ IsFinite(x)
          /\ x[1] > 0
          /\ x[1] * anorm[2] >
               FloorDivPow(EPSILON.mant * anorm[1] * x[2], 10, EPSILON.exp10)

\* cond + 1.0 == cond in double: cond is infinite or |cond| >= 2^53
AbsorbsOne(c) ==
    /\ ~IsNaN(c)
    /\ \/ ~IsFinite(c)
       \/ FloorDivPow(AbsInt(c[1]) \div c[2], 2, 53) >= 1

\* the condition estimate is kept as <<num, den, exp10>> = (num/den) * 10^exp10
\* so that the literal 1.0e+32 has a representation
CondOf(x) == <<x[1], x[2], 0>>
SINGULAR_COND == <<1, 1, 32>>

RECURSIVE FSum(_, _, _)
\* f[lo] + ... + f[hi], accumulated upwards from 0.0
FSum(f, lo, hi) == IF hi < lo THEN Zero ELSE fadd(FSum(f, lo, hi - 1), f[hi])

----------------------------------------------------------------------------
(* details::decomp and details::solve, loop by loop *)

RECURSIVE NormScan(_, _, _, _, _)
\* the column loop of the 1-norm: anorm after columns j .. n-1
NormScan(n, ndim, a, j, anorm) ==
    IF j >= n THEN anorm
    ELSE LET t == FSum([i \in 0 .. n - 1 |-> fabs(a[i * ndim + j])], 0, n - 1)
         IN  NormScan(n, ndim, a, j + 1, IF fgt(t, anorm) THEN t ELSE anorm)

\* mutant of Norm1: the column sums are added up instead of maximised
Norm1_Summed(n, ndim, a) ==
    FSum([j \in 0 .. n - 1 |->
             FSum([i \in 0 .. n - 1 |-> fabs(a[i * ndim + j])], 0, n - 1)], 0, n - 1)

\* 1-norm of a: the largest column sum of absolute values
Norm1(n, ndim, a) == NormScan(n, ndim, a, 0, Zero)

RECURSIVE PivotScan_LastOnTies(_, _, _, _, _, _)
\* mutant of PivotScan: >= in place of >, so the last of several equal maxima wins
PivotScan_LastOnTies(n, ndim, a, k, i, m) ==
    IF i >= n THEN m
    ELSE PivotScan_LastOnTies(n, ndim, a, k, i + 1,
                   IF ~flt(fabs(a[i * ndim + k]), fabs(a[m * ndim + k])) THEN i ELSE m)

RECURSIVE PivotScan(_, _, _, _, _, _)
\* the pivot search: rows i .. n-1 still to compare, m the best row so far
PivotScan(n, ndim, a, k, i, m) ==
    IF i >= n THEN m
    ELSE PivotScan(n, ndim, a, k, i + 1,
                   IF fgt(fabs(a[i * ndim + k]), fabs(a[m * ndim + k])) THEN i ELSE m)

\* row of the element of largest magnitude in column k, rows k .. n-1
PivotRow(n, ndim, a, k) == PivotScan(n, ndim, a, k, k + 1, k)

\* mutant of PivotRecord: the parity is not updated
PivotRecord_NoParity(n, p, k, m) == [p EXCEPT ![k] = m]

\* pivot[k] = m, and the parity in pivot[n-1] changes sign when m # k
PivotRecord(n, p, k, m) ==
    [[p EXCEPT ![k] = m] EXCEPT ![n - 1] = IF m # k THEN -@ ELSE @]

\* interchange rows m and k over columns k .. n-1
SwapRows(n, ndim, a, m, k) ==
    [x \in DOMAIN a |->
        IF x \in {m * ndim + j : j \in k .. n - 1} THEN a[x - m * ndim + k * ndim]
        ELSE IF x \in {k * ndim + j : j \in k .. n - 1} THEN a[x - k * ndim + m * ndim]
        ELSE a[x]]

\* the multiplier of row i at step k
Multiplier(ndim, a, k, i, pvt) == fneg(fdiv(a[i * ndim + k], pvt))

\* eliminate column k from rows k+1 .. n-1, storing the multipliers in column k
Eliminate(n, ndim, a, k, pvt, anorm) ==
    [x \in DOMAIN a |->
        LET i == x \div ndim
            j == x % ndim
            t == Multiplier(ndim, a, k, i, pvt)
        IN  IF i > k /\ i < n /\ j = k THEN t
            ELSE IF i > k /\ i < n /\ j > k /\ j < n /\ GtTol(fabs(t), anorm)
                 THEN fadd(a[x], fmul(a[k * ndim + j], t))
            ELSE a[x]]

RECURSIVE YSolve(_, _, _, _, _, _)
\* solve (a-transpose) * y = e: steps k .. n-1, stopping at a small diagonal
YSolve(n, ndim, a, anorm, k, work) ==
    IF k >= n THEN [singular |-> FALSE, work |-> work, zerodiv |-> FALSE]
    ELSE LET t == FSum([i \in 0 .. k - 1 |-> fmul(a[i * ndim + k], work[i])], 0, k - 1)
             ek == IF flt(t, Zero) THEN fneg(One) ELSE One
             pa == a[k * ndim + k]
             rest == YSolve(n, ndim, a, anorm, k + 1,
                            [work EXCEPT ![k] = fdiv(fneg(fadd(ek, t)), pa)])
         IN  IF LtTol(fabs(pa), anorm)
             THEN [singular |-> TRUE, work |-> work, zerodiv |-> FALSE]
             ELSE [rest EXCEPT !.zerodiv = @ \/ IsZero(pa)]

RECURSIVE YBack(_, _, _, _, _, _)
\* the second loop of the estimate: steps k, k-1, .. 0
YBack(n, ndim, a, pivot, k, work) ==
    IF k < 0 THEN work
    ELSE LET t == FSum([i \in k + 1 .. n - 1 |-> fmul(a[i * ndim + k], work[i])],
                       k + 1, n - 1)
             w == [work EXCEPT ![k] = t]
             m == pivot[k]
         IN  YBack(n, ndim, a, pivot, k - 1,
                   IF m # k THEN [w EXCEPT ![m] = w[k], ![k] = w[m]] ELSE w)

\* 1-norm of a vector of length n
VecNorm1(n, v) == FSum([i \in 0 .. n - 1 |-> fabs(v[i])], 0, n - 1)

RECURSIVE Forward_NoInterchange(_, _, _, _, _, _)
\* mutant of Forward: the multipliers are applied without replaying the interchange
Forward_NoInterchange(n, ndim, a, pivot, k, b) ==
    IF k >= n - 1 THEN b
    ELSE Forward_NoInterchange(n, ndim, a, pivot, k + 1,
                     [i \in DOMAIN b |->
                         IF i > k /\ i < n THEN fadd(b[i], fmul(a[i * ndim + k], b[k]))
                         ELSE b[i]])

RECURSIVE Forward(_, _, _, _, _, _)
\* forward elimination of solve: steps k .. n-2
Forward(n, ndim, a, pivot, k, b) ==
    IF k >= n - 1 THEN b
    ELSE LET m == pivot[k]
             t == b[m]
             b1 == [[b EXCEPT ![m] = b[k]] EXCEPT ![k] = t]
         IN  Forward(n, ndim, a, pivot, k + 1,
                     [i \in DOMAIN b1 |->
                         IF i > k /\ i < n THEN fadd(b1[i], fmul(a[i * ndim + k], t))
                         ELSE b1[i]])

RECURSIVE DotSub(_, _, _, _, _, _, _)
\* t -= a[k][j] * b[j] for j .. n-1
DotSub(n, ndim, a, b, k, j, t) ==
    IF j >= n THEN t
    ELSE DotSub(n, ndim, a, b, k, j + 1, fsub(t, fmul(a[k * ndim + j], b[j])))

RECURSIVE BackSubst(_, _, _, _, _)
\* back substitution of solve: steps k, k-1, .. 0
BackSubst(n, ndim, a, k, b) ==
    IF k < 0 THEN b
    ELSE BackSubst(n, ndim, a, k - 1,
                   [b EXCEPT ![k] = fdiv(DotSub(n, ndim, a, b, k, k + 1, b[k]),
                                         a[k * ndim + k])])

\* details::solve: b on return (every pivot[k] read lies in 0 .. n-1)
solve(n, ndim, a, b, pivot) ==
    IF n = 1 THEN [b EXCEPT ![0] = fdiv(b[0], a[0])]
    ELSE BackSubst(n, ndim, a, n - 1, Forward(n, ndim, a, pivot, 0, b))

\* the condition estimate of decomp, from the first y-loop to the flag test
CondEstimate(n, ndim, a, pivot, anorm) ==
    LET y == YSolve(n, ndim, a, anorm, 0, [i \in 0 .. n - 1 |-> Zero])
        w == YBack(n, ndim, a, pivot, n - 2, y.work)
        ynorm == VecNorm1(n, w)
        z == solve(n, ndim, a, w, pivot)
        znorm == VecNorm1(n, z)
        c0 == fdiv(fmul(anorm, znorm), ynorm)
        c1 == IF flt(c0, One) THEN One ELSE c0
    IN  IF y.singular
        THEN [cond |-> SINGULAR_COND, flag |-> 3, zerodiv |-> FALSE]
        ELSE [cond |-> CondOf(c1),
              flag |-> IF AbsorbsOne(c1) THEN 3 ELSE 0,
              zerodiv |-> y.zerodiv \/ \E k \in 0 .. n - 1 : IsZero(a[k * ndim + k])]

----------------------------------------------------------------------------
(* The program state *)

VARIABLES
    suite,          \* harness: "numeric" (one call, many matrices) or "lifecycle"
    client,         \* harness: which entry point is driven: "Decomp", "Solve", "decomp"
    callsLeft,      \* harness: calls still to be made on the instance
    matrix,         \* caller's matrix argument of the current / last call
    matrix_right,   \* caller's right-hand-side vector (Solve client)
    right0,         \* what matrix_right held when the call was made
    outcome,        \* how the last call ended: "none", "ok", "logic_error", "bad_alloc"
    heap,           \* heap[p] = number of times block p was released
    dec,            \* the Decomp object: cond_, size_, data_, pivot_, flag_
    a,              \* contents of the factor buffer
    pivot,          \* contents of the pivot buffer
    pivotSet,       \* indices of pivot written since its allocation
    data_right_,    \* Solve::data_right_
    b,              \* contents of the right-hand-side copy
    call,           \* arguments of the running decomp call: n, ndim, a, pivot
    pc,             \* position of the running call
    k,              \* decomp: elimination step
    pvt,            \* decomp: pivot value of the step
    anorm,          \* decomp: 1-norm of the input matrix
    work,           \* decomp: the workspace pointer
    workBlock,      \* the workspace block acquired by the running / last decomp call
    divz,           \* places where the current call divided by a zero element
    ub              \* undefined behaviour met so far

vars == <<suite, client, callsLeft, matrix, matrix_right, right0, outcome, heap, dec, a,
          pivot, pivotSet, data_right_, b, call, pc, k, pvt, anorm, work,
          workBlock, divz, ub>>

harnessVars == <<suite, client>>
decompLocals == <<k, pvt, anorm, work, workBlock>>

\* Decomp::Decomp()
NewDecomp == [cond_ |-> CondOf(Zero), size_ |-> 0, data_ |-> 0, pivot_ |-> 0, flag_ |-> 0]

\* an empty buffer
NoBuffer == << >>

----------------------------------------------------------------------------
(* Inputs of the harness *)

Entries == -MaxAbs .. MaxAbs

\* all n x n matrices (vector of rows) with entries in S
SquareMatrices(n, S) == [1 .. n -> [1 .. n -> S]]

\* the worked examples of the documentation
Examples == { <<<<2, 1>>, <<1, 3>>>>, <<<<0, 1>>, <<1, 0>>>>, <<<<5>>>>, <<<<0>>>> }

\* empty, non-square and ragged arguments
Malformed ==
    { << >>, << << >> >>, << <<1, 1>> >>, << <<1>>, <<1>> >>,
      << <<1, 0>>, <<1>> >>, << <<1, 0>>, <<0, 1, 1>> >>, << <<0, 1>>, << >> >> }

\* a few matrices of order 1 and 2 for the lifecycle harness
Small ==
    { <<<<0>>>>, <<<<1>>>>, <<<<1, 0>>, <<0, 1>>>>, <<<<0, 1>>, <<1, 0>>>>,
      <<<<1, 1>>, <<1, 1>>>>, <<<<0, 0>>, <<0, 0>>>>, <<<<0, 1>>, <<0, 1>>>> }

Matrices(s) ==
    IF s = "numeric"
    THEN (UNION {SquareMatrices(n, Entries) : n \in 1 .. MaxN}) \cup Examples \cup Malformed
    ELSE Small \cup Malformed

\* right-hand sides offered with a matrix of r rows: c * (1, 2, .., r) for
\* c in 1 .. MaxAbs, the documented examples, and one vector of the wrong length
Rhs(s, r) ==
    IF s = "numeric"
    THEN {[i \in 1 .. r |-> c * i] : c \in 1 .. MaxAbs}
           \cup {v \in {<<3, 4>>, <<2, 5>>, <<10>>} : Len(v) = r}
           \cup {[i \in 1 .. r + 1 |-> 1]}
    ELSE {[i \in 1 .. r |-> 1], [i \in 1 .. r + 1 |-> 1]}

\* whether an allocation may fail: only the lifecycle harness runs short of memory
MayFail(s) == IF s = "lifecycle" THEN BOOLEAN ELSE {FALSE}

\* what an uninitialised double / int may hold (for an int: one index inside the
\* vector and one past its end)
GarbageDoubles == {Zero, D(7)}
GarbageInts(n) == {0, n}

----------------------------------------------------------------------------
(* Heap *)

\* operator new[] / malloc: the block is Len(h) + 1
Alloc(h) == Append(h, 0)

\* delete[] p / free(p); delete[] nullptr does nothing
Delete(h, p) == IF p = 0 THEN h ELSE [h EXCEPT ![p] = @ + 1]

\* releasing p is undefined when p was released before
IsDoubleFree(h, p) == p # 0 /\ h[p] >= 1

\* Decomp::free()
DecompFree(d, h) == Delete(Delete(h, d.data_), d.pivot_)

DecompFreeUB(d, h) ==
    IF IsDoubleFree(h, d.data_) \/ IsDoubleFree(Delete(h, d.data_), d.pivot_)
    THEN {"double-free"} ELSE {}

\* Solve::free()
SolveFree(p, h) == Delete(h, p)

SolveFreeUB(p, h) == IF IsDoubleFree(h, p) THEN {"double-free"} ELSE {}

----------------------------------------------------------------------------
(* Decomp::operator() up to the call of details::decomp *)

RECURSIVE Flatten(_, _)
\* the elements of rows r .. of the matrix in the order the copy loop visits them
Flatten(mat, r) == IF r > Len(mat) THEN << >> ELSE mat[r] \o Flatten(mat, r + 1)

\* the size check of Decomp::operator(): only the first row is measured
PassesSizeCheck(mat) == Len(mat) > 0 /\ Len(mat) = Len(mat[1])

\* data_ after the copy loop; g gives the cells the loop never writes
CopyIn(mat, n, g) ==
    LET flat == Flatten(mat, 1)
    IN  [x \in 0 .. n * n - 1 |-> IF x < Len(flat) THEN D(flat[x + 1]) ELSE g[x]]

\* cells of data_ the copy loop leaves uninitialised
Unfilled(mat) ==
    LET n == Len(mat) IN {x \in 0 .. n * n - 1 : x >= Len(Flatten(mat, 1))}

\* the copy loop writes past the end of data_
Overflows(mat) == Len(Flatten(mat, 1)) > Len(mat) * Len(mat)

\* Decomp::operator()(matrix) on object d with heap h, up to the call of decomp.
\* failData / failPivot: the respective operator new[] throws bad_alloc.
DecompCall(d, h, mat, failData, failPivot) ==
    LET n == Len(mat)
        h1 == DecompFree(d, h)
        d1 == [d EXCEPT !.size_ = n]
        h2 == Alloc(h1)
        d2 == [d1 EXCEPT !.data_ = Len(h2)]
        h3 == Alloc(h2)
        d3 == [d2 EXCEPT !.pivot_ = Len(h3)]
    IN  IF ~PassesSizeCheck(mat)
        THEN [thrown |-> "logic_error", dec |-> d, heap |-> h, ub |-> {}]
        ELSE IF failData
        THEN [thrown |-> "bad_alloc", dec |-> d1, heap |-> h1, ub |-> DecompFreeUB(d, h)]
        ELSE IF failPivot
        THEN [thrown |-> "bad_alloc", dec |-> d2, heap |-> Delete(h2, d2.data_),
              ub |-> DecompFreeUB(d, h)]
        ELSE [thrown |-> "none", dec |-> d3, heap |-> h3,
              ub |-> DecompFreeUB(d, h)
                       \cup (IF Overflows(mat) THEN {"buffer-overflow"} ELSE {})
                       \cup (IF Unfilled(mat) # {} THEN {"uninit-read"} ELSE {})]

\* where details::decomp returns to
ReturnPc == IF client = "Solve" THEN "apply" ELSE "idle"

\* the state of a call that has entered details::decomp(size_, size_, data_, ...)
EnterDecomp(r, mat, g) ==
    /\ dec' = r.dec
    /\ heap' = r.heap
    /\ a' = CopyIn(mat, Len(mat), g)
    /\ pivot' = [x \in 0 .. Len(mat) * Len(mat) - 1 |-> 0]
    /\ pivotSet' = {}
    /\ call' = [n |-> r.dec.size_, ndim |-> r.dec.size_,
                a |-> r.dec.data_, pivot |-> r.dec.pivot_]
    /\ pc' = "entry"
    /\ outcome' = "none"

\* Decomp::operator() (client Decomp)
Factor ==
    /\ pc = "idle"
    /\ client = "Decomp"
    /\ callsLeft > 0
    /\ \E mat \in Matrices(suite), failData, failPivot \in MayFail(suite) :
         LET r == DecompCall(dec, heap, mat, failData, failPivot)
         IN  /\ matrix' = mat
             /\ callsLeft' = callsLeft - 1
             /\ ub' = ub \cup r.ub
             /\ divz' = {}
             /\ IF r.thrown = "none"
                THEN \E g \in [Unfilled(mat) -> GarbageDoubles] : EnterDecomp(r, mat, g)
                ELSE /\ dec' = r.dec
                     /\ heap' = r.heap
                     /\ outcome' = r.thrown
                     /\ UNCHANGED <<a, pivot, pivotSet, call, pc>>
    /\ UNCHANGED <<harnessVars, matrix_right, right0, data_right_, b, decompLocals>>

\* Decomp::~Decomp()
DestroyDecomp ==
    /\ pc = "idle"
    /\ client = "Decomp"
    /\ heap' = DecompFree(dec, heap)
    /\ ub' = ub \cup DecompFreeUB(dec, heap)
    /\ pc' = "done"
    /\ UNCHANGED <<harnessVars, callsLeft, matrix, matrix_right, right0, outcome, dec, a, pivot,
                   pivotSet, data_right_, b, call, decompLocals, divz>>

----------------------------------------------------------------------------
(* details::decomp, one action per stretch of the function body *)

callerVars ==
    <<harnessVars, callsLeft, matrix, matrix_right, right0, data_right_, b, call>>

\* lines 85-109: argument check, pivot[n-1] = 1, the n == 1 case, malloc of work
DecompEntry ==
    /\ pc = "entry"
    /\ IF call.a = 0 \/ call.pivot = 0 \/ call.n < 1 \/ call.ndim < call.n
       THEN /\ dec' = [dec EXCEPT !.flag_ = 2]
            /\ pc' = ReturnPc
            /\ work' = 0
            /\ workBlock' = 0
            /\ UNCHANGED <<pivot, pivotSet, heap>>
       ELSE /\ pivot' = [pivot EXCEPT ![call.n - 1] = 1]
            /\ pivotSet' = pivotSet \cup {call.n - 1}
            /\ IF call.n = 1
               THEN /\ dec' = IF IsZero(a[0])
                              THEN [dec EXCEPT !.cond_ = SINGULAR_COND, !.flag_ = 3]
                              ELSE [dec EXCEPT !.cond_ = CondOf(One), !.flag_ = 0]
                    /\ pc' = ReturnPc
                    /\ work' = 0
                    /\ workBlock' = 0
                    /\ heap' = heap
               ELSE \E failWork \in MayFail(suite) :
                      IF failWork
                      THEN /\ dec' = [dec EXCEPT !.flag_ = 1]
                           /\ pc' = ReturnPc
                           /\ work' = 0
                           /\ workBlock' = 0
                           /\ heap' = heap
                      ELSE /\ dec' = [dec EXCEPT !.flag_ = 0]
                           /\ heap' = Alloc(heap)
                           /\ work' = Len(heap) + 1
                           /\ workBlock' = Len(heap) + 1
                           /\ pc' = "norm"
    /\ outcome' = IF pc' = "idle" THEN "ok" ELSE outcome
    /\ UNCHANGED <<callerVars, a, k, pvt, anorm, divz, ub>>

\* lines 113-118: the 1-norm
DecompNorm ==
    /\ pc = "norm"
    /\ anorm' = Norm1(call.n, call.ndim, a)
    /\ k' = 0
    /\ pc' = "pivot"
    /\ UNCHANGED <<callerVars, outcome, heap, dec, a, pivot, pivotSet, pvt, work,
                   workBlock, divz, ub>>

\* lines 126-148: pivot search, pivot[k] = m, row interchange
ElimPivot ==
    /\ pc = "pivot"
    /\ LET m == PivotRow(call.n, call.ndim, a, k)
       IN  /\ pvt' = a[m * call.ndim + k]
           /\ pivotSet' = pivotSet \cup {k}
           /\ pivot' = PivotRecord(call.n, pivot, k, m)
           /\ a' = IF m # k THEN SwapRows(call.n, call.ndim, a, m, k) ELSE a
    /\ pc' = "reduce"
    /\ UNCHANGED <<callerVars, outcome, heap, dec, k, anorm, work, workBlock, divz, ub>>

\* lines 152-171: the small-pivot test, then the elimination of column k
ElimReduce ==
    /\ pc = "reduce"
    /\ IF LtTol(fabs(pvt), anorm)
       THEN /\ dec' = [dec EXCEPT !.cond_ = SINGULAR_COND, !.flag_ = 3]
            /\ pc' = "exit"
            /\ UNCHANGED <<a, k, divz>>
       ELSE /\ a' = Eliminate(call.n, call.ndim, a, k, pvt, anorm)
            /\ divz' = IF IsZero(pvt) THEN divz \cup {"pivot"} ELSE divz
            /\ k' = k + 1
            /\ pc' = IF k + 1 < call.n - 1 THEN "pivot" ELSE "estimate"
            /\ dec' = dec
    /\ UNCHANGED <<callerVars, outcome, heap, pivot, pivotSet, pvt, anorm, work,
                   workBlock, ub>>

\* lines 182-227: the condition estimate
DecompEstimate ==
    /\ pc = "estimate"
    /\ LET r == CondEstimate(call.n, call.ndim, a, pivot, anorm)
       IN  /\ dec' = [dec EXCEPT !.cond_ = r.cond,
                                 !.flag_ = IF r.flag = 3 THEN 3 ELSE @]
           /\ divz' = IF r.zerodiv THEN divz \cup {"estimate"} ELSE divz
    /\ pc' = "exit"
    /\ UNCHANGED <<callerVars, outcome, heap, a, pivot, pivotSet, k, pvt, anorm, work,
                   workBlock, ub>>

\* mutant of ReleaseWork: the workspace is not released
ReleaseWork_Leaked(h, w) == h

\* the workspace release at DecompExit
ReleaseWork(h, w) == Delete(h, w)

\* lines 229-234: DecompExit
DecompExit ==
    /\ pc = "exit"
    /\ heap' = ReleaseWork(heap, work)
    /\ work' = 0
    /\ pc' = ReturnPc
    /\ outcome' = IF pc' = "idle" THEN "ok" ELSE outcome
    /\ k' = 0
    /\ pvt' = Zero
    /\ anorm' = Zero
    /\ UNCHANGED <<callerVars, dec, a, pivot, pivotSet, workBlock, divz, ub>>

----------------------------------------------------------------------------
(* Solve::operator() *)

\* lines 65-75: size check, free(), the copy of the right-hand side, dec(matrix_left)
SolveCall ==
    /\ pc = "idle"
    /\ client = "Solve"
    /\ callsLeft > 0
    /\ \E ml \in Matrices(suite) :
       \E mr \in Rhs(suite, Len(ml)) :
       \E failRight, failData, failPivot \in MayFail(suite) :
         LET h1 == SolveFree(data_right_, heap)
             u1 == SolveFreeUB(data_right_, heap)
             h2 == Alloc(h1)
             r == DecompCall(NewDecomp, h2, ml, failData, failPivot)
         IN  /\ matrix' = ml
             /\ matrix_right' = mr
             /\ right0' = mr
             /\ callsLeft' = callsLeft - 1
             /\ divz' = {}
             /\ IF Len(ml) # Len(mr)
                THEN /\ outcome' = "logic_error"
                     /\ UNCHANGED <<heap, data_right_, b, dec, a, pivot, pivotSet,
                                    call, pc, ub>>
                ELSE IF failRight
                THEN /\ outcome' = "bad_alloc"
                     /\ heap' = h1
                     /\ ub' = ub \cup u1
                     /\ UNCHANGED <<data_right_, b, dec, a, pivot, pivotSet, call, pc>>
                ELSE /\ data_right_' = Len(h2)
                     /\ b' = [i \in 0 .. Len(mr) - 1 |-> D(mr[i + 1])]
                     /\ ub' = ub \cup u1 \cup r.ub \cup
                                (IF r.thrown = "none" THEN {}
                                 ELSE DecompFreeUB(r.dec, r.heap))
                     /\ IF r.thrown = "none"
                        THEN \E g \in [Unfilled(ml) -> GarbageDoubles] :
                               EnterDecomp(r, ml, g)
                        ELSE \* the exception unwinds through ~Decomp()
                             /\ heap' = DecompFree(r.dec, r.heap)
                             /\ outcome' = r.thrown
                             /\ UNCHANGED <<dec, a, pivot, pivotSet, call, pc>>
    /\ UNCHANGED <<harnessVars, decompLocals>>

\* pivot as details::solve reads it: g stands for the entries never written
PivotAsRead(n, g) ==
    [x \in 0 .. n - 2 |-> IF x \in pivotSet THEN pivot[x] ELSE g[x]]

\* lines 76-77: details::solve(size, size, dec.data_, data_right_, dec.pivot_)
SolveApply ==
    /\ pc = "apply"
    /\ LET n == Len(matrix)
       IN  \E g \in [(0 .. n - 2) \ pivotSet -> GarbageInts(n)] :
             LET pv == PivotAsRead(n, g)
                 inRange == \A x \in 0 .. n - 2 : pv[x] \in 0 .. n - 1
             IN  /\ b' = IF inRange THEN solve(n, n, a, b, pv) ELSE b
                 /\ ub' = ub \cup (IF inRange THEN {} ELSE {"out-of-bounds"})
                             \cup (IF (0 .. n - 2) \ pivotSet # {}
                                   THEN {"uninit-read"} ELSE {})
                 /\ divz' = IF \E x \in 0 .. n - 1 : IsZero(a[x * n + x])
                            THEN divz \cup {"solve"} ELSE divz
    /\ pc' = "return"
    /\ UNCHANGED <<harnessVars, callsLeft, matrix, matrix_right, right0, outcome, heap, dec, a,
                   pivot, pivotSet, data_right_, call, decompLocals>>

\* line 78: dec goes out of scope, the call returns
SolveReturn ==
    /\ pc = "return"
    /\ heap' = DecompFree(dec, heap)
    /\ ub' = ub \cup DecompFreeUB(dec, heap)
    /\ dec' = NewDecomp
    /\ a' = NoBuffer
    /\ pivot' = NoBuffer
    /\ pivotSet' = {}
    /\ outcome' = "ok"
    /\ pc' = "idle"
    /\ UNCHANGED <<harnessVars, callsLeft, matrix, matrix_right, right0, data_right_, b, call,
                   decompLocals, divz>>

\* Solve::~Solve()
DestroySolve ==
    /\ pc = "idle"
    /\ client = "Solve"
    /\ heap' = SolveFree(data_right_, heap)
    /\ ub' = ub \cup SolveFreeUB(data_right_, heap)
    /\ pc' = "done"
    /\ UNCHANGED <<harnessVars, callsLeft, matrix, matrix_right, right0, outcome, dec, a, pivot,
                   pivotSet, data_right_, b, call, decompLocals, divz>>

----------------------------------------------------------------------------
(* details::decomp called directly on caller-owned storage *)

\* order, stride and buffers a caller may pass; cells outside the matrix hold 9
DirectArgs ==
    { [n |-> n, ndim |-> nd, a |-> pa, pivot |-> pp, mat |-> m] :
        n \in 0 .. 2, nd \in 1 .. 3, pa \in {0, 1}, pp \in {0, 2},
        m \in Small }

\* the caller's buffer: the matrix m laid out with row stride ndim
LayOut(m, n, ndim) ==
    [x \in 0 .. ndim * ndim - 1 |->
        LET i == x \div ndim
            j == x % ndim
        IN  IF i < Len(m) /\ j < Len(m) /\ i < n /\ j < n THEN D(m[i + 1][j + 1])
            ELSE D(9)]

DirectDecomp ==
    /\ pc = "idle"
    /\ client = "decomp"
    /\ callsLeft > 0
    /\ \E c \in DirectArgs :
         /\ c.n <= Len(c.mat)
         /\ call' = [n |-> c.n, ndim |-> c.ndim, a |-> c.a, pivot |-> c.pivot]
         /\ matrix' = c.mat
         /\ a' = IF c.a = 0 THEN NoBuffer ELSE LayOut(c.mat, c.n, c.ndim)
         /\ pivot' = IF c.pivot = 0 THEN NoBuffer ELSE [x \in 0 .. c.ndim - 1 |-> 0]
    /\ pivotSet' = {}
    /\ callsLeft' = callsLeft - 1
    /\ outcome' = "none"
    /\ divz' = {}
    /\ pc' = "entry"
    /\ UNCHANGED <<harnessVars, matrix_right, right0, heap, dec, data_right_, b,
                   decompLocals, ub>>

----------------------------------------------------------------------------
(* Undefined behaviour may also end the process *)

Abort ==
    /\ ub # {}
    /\ pc \notin {"done", "aborted"}
    /\ pc' = "aborted"
    /\ UNCHANGED <<harnessVars, callsLeft, matrix, matrix_right, right0, outcome, heap, dec, a,
                   pivot, pivotSet, data_right_, b, call, decompLocals, divz, ub>>

----------------------------------------------------------------------------
(* Specifications *)

Clients == {"Decomp", "Solve", "decomp"}

InitState ==
    /\ client \in Clients
    /\ matrix = << >>
    /\ matrix_right = << >>
    /\ right0 = << >>
    /\ outcome = "none"
    /\ heap = IF client = "decomp" THEN <<0, 0>> ELSE << >>
    /\ dec = NewDecomp
    /\ a = NoBuffer
    /\ pivot = NoBuffer
    /\ pivotSet = {}
    /\ data_right_ = 0
    /\ b = NoBuffer
    /\ call = [n |-> 0, ndim |-> 0, a |-> 0, pivot |-> 0]
    /\ pc = "idle"
    /\ k = 0
    /\ pvt = Zero
    /\ anorm = Zero
    /\ work = 0
    /\ workBlock = 0
    /\ divz = {}
    /\ ub = {}

\* one call on a fresh object, over the full set of matrices
Init == suite = "numeric" /\ callsLeft = 1 /\ InitState

\* MaxCalls calls on one object, over a few matrices
InitLifecycle == suite = "lifecycle" /\ callsLeft = MaxCalls /\ InitState

Next ==
    \/ Factor
    \/ DestroyDecomp
    \/ SolveCall
    \/ SolveApply
    \/ SolveReturn
    \/ DestroySolve
    \/ DirectDecomp
    \/ DecompEntry
    \/ DecompNorm
    \/ ElimPivot
    \/ ElimReduce
    \/ DecompEstimate
    \/ DecompExit
    \/ Abort

Spec == Init /\ [][Next]_vars

LifecycleSpec == InitLifecycle /\ [][Next]_vars

----------------------------------------------------------------------------
(* Reference notions used by the properties (none of them is used by the model) *)

\* every row is as long as the matrix has rows
IsSquare(mat) == Len(mat) > 0 /\ \A r \in 1 .. Len(mat) : Len(mat[r]) = Len(mat)

\* the matrix without row 1 and column c
Minor(mat, c) ==
    [r \in 1 .. Len(mat) - 1 |->
        [j \in 1 .. Len(mat) - 1 |-> mat[r + 1][IF j < c THEN j ELSE j + 1]]]

RECURSIVE Det(_)
RECURSIVE DetExpand(_, _)
\* cofactor expansion along the first row, columns c .. n
DetExpand(mat, c) ==
    IF c > Len(mat) THEN 0
    ELSE (IF c % 2 = 1 THEN 1 ELSE -1) * mat[1][c] * Det(Minor(mat, c))
           + DetExpand(mat, c + 1)

\* determinant of an integer matrix
Det(mat) == IF Len(mat) = 1 THEN mat[1][1] ELSE DetExpand(mat, 1)

RECURSIVE DotRow(_, _, _)
\* row[1] * x[0] + ... + row[j] * x[j-1]
DotRow(row, x, j) ==
    IF j = 0 THEN Zero ELSE fadd(DotRow(row, x, j - 1), fmul(D(row[j]), x[j - 1]))

\* mat * x = rhs, for x a buffer on 0 .. n-1 and rhs a vector
Solves(mat, x, rhs) ==
    \A i \in 1 .. Len(mat) : DotRow(mat[i], x, Len(mat)) = D(rhs[i])

RECURSIVE DiagProduct(_, _, _)
\* buf[0][0] * ... * buf[i][i]
DiagProduct(ndim, buf, i) ==
    IF i < 0 THEN One ELSE fmul(DiagProduct(ndim, buf, i - 1), buf[i * ndim + i])

Identity(n) == [i \in 1 .. n |-> [j \in 1 .. n |-> IF i = j THEN 1 ELSE 0]]

HasZeroRow(mat) == \E r \in 1 .. Len(mat) : \A j \in 1 .. Len(mat) : mat[r][j] = 0

HasEqualRows(mat) == \E r, q \in 1 .. Len(mat) : r # q /\ mat[r] = mat[q]

\* a call of Decomp::operator() has returned normally
FactorReturned == client = "Decomp" /\ pc = "idle" /\ outcome = "ok"

\* details::decomp has just returned
AfterDecomp ==
    \/ client \in {"Decomp", "decomp"} /\ pc = "idle" /\ outcome = "ok"
    \/ client = "Solve" /\ pc = "apply"

\* the arguments of the decomp call pass its entry check
ValidArgs == call.a # 0 /\ call.pivot # 0 /\ call.n >= 1 /\ call.ndim >= call.n

\* details::decomp has just returned from working on the whole of the square matrix
DecompReturned ==
    AfterDecomp /\ ValidArgs /\ IsSquare(matrix) /\ call.n = Len(matrix)

\* the input as the caller laid it out in the factor buffer
InputLayout ==
    [x \in DOMAIN a |->
        LET i == x \div call.ndim
            j == x % call.ndim
        IN  IF i < call.n /\ j < call.n THEN D(matrix[i + 1][j + 1]) ELSE a[x]]

\* the step about to be taken is a call of Decomp::operator()
IsFactorStep == pc = "idle" /\ client = "Decomp" /\ callsLeft' < callsLeft

----------------------------------------------------------------------------
(* Properties *)

\* C1: every empty or non-square argument (some row's length differs from the
\* number of rows) makes Decomp::operator() throw logic_error with the object's
\* buffers, condition, status and size untouched and details::decomp never entered.
C1_MalformedRejected ==
    [][(IsFactorStep /\ ~IsSquare(matrix'))
         => (outcome' = "logic_error" /\ pc' = "idle"
               /\ UNCHANGED <<dec, a, pivot, pivotSet, heap>>)]_vars

\* C2: a square matrix with an all-zero row or two identical rows is factored
\* with status Singular (3) and condition 1e32, and no division by a zero pivot
\* or zero diagonal element happens on the way.
C2_SingularDetected ==
    (FactorReturned /\ IsSquare(matrix) /\ (HasZeroRow(matrix) \/ HasEqualRows(matrix)))
      => (dec.flag_ = 3 /\ dec.cond_ = SINGULAR_COND /\ divz = {})

\* C3: after Solve::operator() returns for a nonsingular matrix_left, the caller's
\* matrix_right holds the solution x of matrix_left * x = (original matrix_right).
C3_CallerVectorSolved ==
    (client = "Solve" /\ pc = "idle" /\ outcome = "ok" /\ IsSquare(matrix)
       /\ Det(matrix) # 0)
      => Solves(matrix, [i \in 0 .. Len(matrix) - 1 |-> D(matrix_right[i + 1])], right0)

\* C4: for a nonsingular A factored with status OK, details::solve leaves in its
\* vector b the exact solution of A * x = b.
C4_SolveSolves ==
    (pc = "return" /\ IsSquare(matrix) /\ Det(matrix) # 0 /\ dec.flag_ = 0)
      => Solves(matrix, b, right0)

C4_Witness ==
    /\ pc = "return"
    /\ matrix = <<<<0, 1>>, <<1, 0>>>>
    /\ right0 = <<2, 5>>
    /\ dec.flag_ = 0
    /\ b[0] = D(5)
    /\ b[1] = D(2)

\* C5: after decomp ends with status OK, pivot[n-1] is +1 or -1, equals
\* (-1)^(number of steps k with pivot[k] # k), and pivot[n-1] times the product
\* of the diagonal of the factor buffer is det(A).
C5_DeterminantRecovered ==
    (DecompReturned /\ dec.flag_ = 0)
      => LET n == call.n
             swaps == Cardinality({x \in 0 .. n - 2 : pivot[x] # x})
         IN  /\ pivot[n - 1] \in {1, -1}
             /\ pivot[n - 1] = (IF swaps % 2 = 0 THEN 1 ELSE -1)
             /\ fmul(D(pivot[n - 1]), DiagProduct(call.ndim, a, n - 1)) = D(Det(matrix))

C5_Witness ==
    /\ DecompReturned
    /\ dec.flag_ = 0
    /\ call.n = 3
    /\ pivot[0] = 2
    /\ pivot[1] = 1
    /\ pivot[2] = -1
    /\ Det(matrix) = 2

\* C6: the identity matrix of any order is factored with status OK, condition
\* exactly 1.0, unit diagonal, pivot[k] = k for k < n-1 and pivot[n-1] = 1.
C6_IdentityFactored ==
    (DecompReturned /\ matrix = Identity(Len(matrix)))
      => LET n == call.n
         IN  /\ dec.flag_ = 0
             /\ dec.cond_ = CondOf(One)
             /\ \A i \in 0 .. n - 1 : a[i * call.ndim + i] = One
             /\ \A x \in 0 .. n - 2 : pivot[x] = x
             /\ pivot[n - 1] = 1

C6_Witness ==
    /\ DecompReturned
    /\ matrix = Identity(3)
    /\ dec.cond_ = CondOf(One)
    /\ pivotSet = {0, 1, 2}

\* C7: the pivot step of elimination step k records a row m in k .. n-1 whose
\* column-k entry has the largest magnitude among rows k .. n-1 (the first such
\* row), interchanges rows m and k over columns k .. n-1, negates pivot[n-1]
\* exactly when m # k, and all this is done before the small-pivot test: a step
\* that bails out leaves the record and the interchanged rows in place.
C7_PartialPivoting ==
    [][/\ (pc = "pivot" /\ pc' = "reduce")
            => LET n == call.n
                   nd == call.ndim
                   m == pivot'[k]
               IN  /\ m \in k .. n - 1
                   /\ \A i \in k .. n - 1 :
                        ~flt(fabs(a[m * nd + k]), fabs(a[i * nd + k]))
                   /\ \A i \in k .. m - 1 :
                        flt(fabs(a[i * nd + k]), fabs(a[m * nd + k]))
                   /\ \A j \in k .. n - 1 :
                        a'[k * nd + j] = a[m * nd + j] /\ a'[m * nd + j] = a[k * nd + j]
                   /\ \A x \in DOMAIN a :
                        x \notin {r * nd + j : r \in {k, m}, j \in k .. n - 1}
                          => a'[x] = a[x]
                   /\ pivot'[n - 1] = (IF m # k THEN -pivot[n - 1] ELSE pivot[n - 1])
                   /\ \A x \in DOMAIN pivot : x \notin {k, n - 1} => pivot'[x] = pivot[x]
                   /\ dec' = dec
       /\ (pc = "reduce" /\ pc' = "exit")
            => (k \in pivotSet /\ a' = a /\ pivot' = pivot /\ dec'.flag_ = 3)
      ]_vars

C7_Witness ==
    /\ pc = "reduce"
    /\ call.n = 3
    /\ k = 1
    /\ pivot[0] = 2
    /\ pivot[1] = 2
    /\ pivot[2] = 1

\* C8: the workspace is acquired only for valid arguments with n >= 2; whenever
\* decomp returns, no workspace is held, a workspace acquired by the call has been
\* released exactly once, none was acquired on the ConfigurationError, n == 1 and
\* AllocationFailure paths, and on AllocationFailure the factor buffer is as the
\* caller supplied it.
C8_WorkspaceReleased ==
    /\ work # 0 => (ValidArgs /\ call.n >= 2 /\ work = workBlock /\ heap[work] = 0)
    /\ AfterDecomp =>
         /\ work = 0
         /\ workBlock # 0 => (heap[workBlock] = 1 /\ ValidArgs /\ call.n >= 2)
         /\ (dec.flag_ \in {1, 2} \/ call.n = 1 \/ ~ValidArgs) => workBlock = 0
         /\ (ValidArgs /\ call.n >= 2 /\ dec.flag_ # 1) => workBlock # 0
         /\ (dec.flag_ = 1 /\ IsSquare(matrix)) => a = InputLayout

C8_Witness ==
    /\ AfterDecomp
    /\ dec.flag_ = 3
    /\ dec.cond_ = SINGULAR_COND
    /\ call.n = 2
    /\ workBlock # 0
    /\ heap[workBlock] = 1
    /\ work = 0
    /\ ~IsZero(a[0])
    /\ IsZero(a[call.ndim + 1])

\* C9: over any sequence of calls on one Decomp (or Solve) object followed by its
\* destruction, allocation failures and rejected calls included, every block that
\* was allocated is released exactly once: never twice, and none is left.
C9_ReleasedExactlyOnce ==
    client \in {"Decomp", "Solve"}
      => /\ \A p \in 1 .. Len(heap) : heap[p] <= 1
         /\ pc = "done" => \A p \in 1 .. Len(heap) : heap[p] = 1

\* C10: for every square matrix_left of order n >= 2 given to Solve::operator(),
\* every pivot[k] that details::solve reads was written by the factorization and
\* lies in k .. n-1, every index used on the right-hand-side copy is within
\* 0 .. n-1, and back substitution never divides by a zero diagonal element.
C10_SolveStaysDefined ==
    (pc = "return" /\ IsSquare(matrix) /\ Len(matrix) >= 2)
      => /\ \A x \in 0 .. Len(matrix) - 2 : x \in pivotSet /\ pivot[x] \in x .. Len(matrix) - 1
         /\ "out-of-bounds" \notin ub
         /\ "solve" \notin divz

=============================================================================
